---- MODULE Spec2Model ----
(***************************************************************************)
(* A model of audiodedupe.py: the AudioDedupe object (the forward mapping  *)
(* fingerprints, the reverse mapping reverseFingerprints), the cache file, *)
(* the files on disk, and the pool workers that run scanFile during scan.  *)
(*                                                                         *)
(* A Python dict keeps insertion order and the code depends on it (the     *)
(* iteration in pruneFingerprints and _updateReverseFingerprints), so the  *)
(* forward mapping is a sequence of entries [fp, files], one per key.      *)
(* The reverse mapping is a function on the paths, Missing for a path that  *)
(* is no key.                                                              *)
(*                                                                         *)
(* scan is split at the places where the pool's processes interleave; the  *)
(* coordinator's parts (listing the candidates, merging the results and    *)
(* writing the cache) and pruneFingerprints are single steps. Files are    *)
(* created and deleted between operations: a scan reads the disk only in   *)
(* its walk and a prune reads it in one pass. Every provider call draws    *)
(* its outcome anew, so a file may get another fingerprint on a later call.*)
(***************************************************************************)
EXTENDS Naturals, Sequences, FiniteSets, TLC

VARIABLES
    disk,                 \* the paths that are regular files on disk
    cacheFile,            \* the content of <cacheDir>/audiodedupe_cache.json
    cacheEnabled,         \* self.cacheEnabled
    fingerprints,         \* self.fingerprints of the coordinating process
    reverseFingerprints,  \* self.reverseFingerprints of the coordinating process
    pc,                   \* where the coordinating process is
    candidates,           \* the list pool.map made of self._descend(directory)
    results,              \* pool.map's result list, one slot per candidate
    nextTask,             \* index of the first candidate not yet handed to a worker
    workers,              \* the pool's worker processes
    passLog,              \* history: what the provider did in the current scan pass
    lastOp,               \* history: the last completed operation and its pre-state
    nOps,                 \* history: calls of scan and pruneFingerprints so far
    nRuns,                \* history: instances constructed so far
    printed               \* what the last operation, if analyzeResults, printed

vars == <<disk, cacheFile, cacheEnabled, fingerprints, reverseFingerprints, pc,
          candidates, results, nextTask, workers, passLog, lastOp, nOps, nRuns,
          printed>>

----------------------------------------------------------------------------
(* Bounds of the model *)

\* calls of scan and pruneFingerprints, over all runs
MaxOps == 4
\* runs of the program after the first one
MaxRuns == 2
\* processes of the pool (concurrentProcesses)
NumWorkers == 2

\* the audio files the walk can find, in the order os.walk lists them
WalkOrder == <<"a", "b", "c">>
Paths == {WalkOrder[i] : i \in DOMAIN WalkOrder}
\* the directories scan is called with, and the files below each
Dirs == {"music", "music/sub"}
DirFiles(d) ==
    CASE d = "music"     -> {"a", "b"}
      [] d = "music/sub" -> {"b"}
      [] d = "album"     -> {"a", "b", "c"}
\* the well-formed fingerprints the provider can print
Fingerprints == {"X", "Y"}
\* what a provider process that exits can have done: a non-zero exit, output
\* that is not JSON, JSON without a fingerprint field, or JSON with one (whose
\* value may be the empty string)
ProviderFailures == {"nonzero", "malformed", "nofield"}
ProviderOutputs == ProviderFailures \cup Fingerprints \cup {""}

None == [file |-> "", fingerprint |-> "", success |-> FALSE]
Pending == [file |-> "?", fingerprint |-> "", success |-> FALSE]
\* a reverse mapping is a function on Paths; Missing marks a path that is no key
Missing == "<missing>"
EmptyMap == [p \in Paths |-> Missing]
Absent == [kind |-> "absent", data |-> <<>>]
IdleWorker == [pc |-> "idle", idx |-> 0, last |-> 0, rev |-> EmptyMap]
EmptyLog == [calls |-> [p \in Paths |-> 0], failed |-> {}, computed |-> {},
             answers |-> [p \in Paths |-> Pending], order |-> <<>>]
PruneKinds == {"prune", "analyze"}
NoOutput == [done |-> FALSE, count |-> 0, groups |-> <<>>]
NoOp == [kind |-> "none", raised |-> "none", fpBefore |-> <<>>, revBefore |-> EmptyMap,
         fileBefore |-> Absent, repeat |-> FALSE, cmdFound |-> TRUE]

----------------------------------------------------------------------------
(* Python's dict and list operations, as the code uses them *)

Contains(s, x) == \E i \in DOMAIN s : s[i] = x
Keys(d) == {d[i].fp : i \in DOMAIN d}
Get(d, f) == d[CHOOSE i \in DOMAIN d : d[i].fp = f].files
Members(d) == UNION {{d[i].files[j] : j \in DOMAIN d[i].files} : i \in DOMAIN d}
RemoveAt(s, i) == SubSeq(s, 1, i - 1) \o SubSeq(s, i + 1, Len(s))
\* list.remove(x): the first item equal to x goes
ListRemove(s, x) == RemoveAt(s, CHOOSE i \in DOMAIN s : s[i] = x /\ \A j \in 1..(i - 1) : s[j] # x)
\* d.setdefault(f, [])
SetDefault(d, f) == IF f \in Keys(d) THEN d ELSE Append(d, [fp |-> f, files |-> <<>>])
\* d[f].append(p)
AppendTo(d, f, p) == [i \in DOMAIN d |-> IF d[i].fp = f THEN [d[i] EXCEPT !.files = Append(@, p)] ELSE d[i]]
\* d[f] = files
SetItem(d, f, files) ==
    IF f \in Keys(d) THEN [i \in DOMAIN d |-> IF d[i].fp = f THEN [d[i] EXCEPT !.files = files] ELSE d[i]]
    ELSE Append(d, [fp |-> f, files |-> files])
\* p in rev, rev[p] = f, and del rev[p] (guarded by "if p in rev")
Has(rev, p) == rev[p] # Missing
Put(rev, p, f) == [rev EXCEPT ![p] = f]
Del(rev, p) == [rev EXCEPT ![p] = Missing]
RevKeys(rev) == {p \in Paths : Has(rev, p)}

----------------------------------------------------------------------------
(* The cache file: json.dump and json.load of the forward mapping *)

\* json.dump(self.fingerprints): the object's members in the dict's order, each a
\* key string and an array of path strings
JsonDump(d) == [i \in DOMAIN d |-> <<d[i].fp, d[i].files>>]
\* json.load of an object: its members set one after the other into a new dict
RECURSIVE JsonLoadFrom(_, _, _)
JsonLoadFrom(doc, i, d) ==
    IF i > Len(doc) THEN d
    ELSE JsonLoadFrom(doc, i + 1, SetItem(d, doc[i][1], doc[i][2]))
JsonLoad(doc) == JsonLoadFrom(doc, 1, <<>>)

\* writeCache: the file holds the dump of the forward mapping
writeCache(d) == [kind |-> "map", data |-> JsonDump(d)]

\* a variant that leaves out the test of self.cacheEnabled
SaveAlways(enabled, file, d, writable) == IF writable THEN writeCache(d) ELSE file

\* "if self.cacheEnabled: self.writeCache()": the file afterwards. When the
\* directory cannot be made or the file cannot be opened, writeCache raises and
\* the file is as it was.
SaveIfEnabled(enabled, file, d, writable) ==
    IF enabled /\ writable THEN writeCache(d) ELSE file
\* what that statement raises
SaveRaises(enabled, writable) == IF enabled /\ ~writable THEN "OSError" ELSE "none"

\* loadCache on a fresh instance (self.fingerprints = {}): what the instance and
\* the file are afterwards. A file that json.load rejects is removed; a document
\* that parses is stored as it is, whatever its shape.
loadCache(file) ==
    CASE file.kind = "absent"     -> [fps |-> <<>>, file |-> file, shape |-> "dict"]
      [] file.kind = "garbage"    -> [fps |-> <<>>, file |-> Absent, shape |-> "dict"]
      [] file.kind = "wrongshape" -> [fps |-> <<>>, file |-> file, shape |-> "list"]
      [] OTHER                    -> [fps |-> JsonLoad(file.data), file |-> file, shape |-> "dict"]

\* _updateReverseFingerprints: every file of every entry, in the dict's order,
\* is set in the reverse mapping (a later entry overwrites an earlier one)
RECURSIVE UpdateFiles(_, _, _, _)
UpdateFiles(files, j, f, rev) ==
    IF j > Len(files) THEN rev
    ELSE UpdateFiles(files, j + 1, f, Put(rev, files[j], f))
RECURSIVE UpdateFrom(_, _, _)
UpdateFrom(d, i, rev) ==
    IF i > Len(d) THEN rev
    ELSE UpdateFrom(d, i + 1, UpdateFiles(d[i].files, 1, d[i].fp, rev))
updateReverseFingerprints(d, rev) == UpdateFrom(d, 1, rev)

----------------------------------------------------------------------------
(* scan: the walk, the chunks of pool.map, and the merge of the results *)

\* _descend(directory): the files below the directory, in the walk's order
descend(d, onDisk) == SelectSeq(WalkOrder, LAMBDA p : p \in onDisk /\ p \in DirFiles(d))

\* pool.map's chunk size for n items: divmod(n, 4 * processes), rounded up
ChunkSize(n) ==
    (n \div (4 * NumWorkers)) + (IF n % (4 * NumWorkers) # 0 THEN 1 ELSE 0)

Min(a, b) == IF a < b THEN a ELSE b

\* a variant that leaves out the test of line 130
MergeResultAlwaysAppends(d, res) ==
    IF res = None THEN d
    ELSE IF ~res.success THEN d
    ELSE IF res.file = "" \/ res.fingerprint = "" THEN d
    ELSE AppendTo(SetDefault(d, res.fingerprint), res.fingerprint, res.file)

\* the body of "for res in results" for one result
MergeResult(d, res) ==
    IF res = None THEN d
    ELSE IF ~res.success THEN d
    ELSE IF res.file = "" \/ res.fingerprint = "" THEN d
    ELSE LET d1 == SetDefault(d, res.fingerprint) IN
         IF Contains(Get(d1, res.fingerprint), res.file) THEN d1
         ELSE AppendTo(d1, res.fingerprint, res.file)
RECURSIVE MergeFrom(_, _, _)
MergeFrom(d, rs, i) ==
    IF i > Len(rs) THEN d
    ELSE MergeFrom(MergeResult(d, rs[i]), rs, i + 1)
MergeResults(d, rs) == MergeFrom(d, rs, 1)

\* a variant that hands the results over in the order the workers finished them
ResultsAsCompleted(rs, order) == [i \in DOMAIN rs |-> rs[order[i]]]

\* pool.map's return value: the results in the order of the candidates,
\* whatever the order the workers finished in
ResultOrder(rs, order) == rs

----------------------------------------------------------------------------
(* pruneFingerprints *)

\* a variant with line 138's test inverted: the files that exist are removed
RECURSIVE PruneFilesRemovesExisting(_, _, _, _)
PruneFilesRemovesExisting(files, j, rev, onDisk) ==
    IF j > Len(files) THEN [files |-> files, rev |-> rev]
    ELSE IF files[j] \in onDisk
         THEN PruneFilesRemovesExisting(ListRemove(files, files[j]), j + 1,
                                        IF Has(rev, files[j]) THEN Del(rev, files[j]) ELSE rev,
                                        onDisk)
         ELSE PruneFilesRemovesExisting(files, j + 1, rev, onDisk)

\* "for fileName in files" with files.remove(fileName) inside: the list iterator
\* keeps an index, which moves on by one whether or not the item at it was removed
RECURSIVE PruneFiles(_, _, _, _)
PruneFiles(files, j, rev, onDisk) ==
    IF j > Len(files) THEN [files |-> files, rev |-> rev]
    ELSE IF files[j] \notin onDisk
         THEN PruneFiles(ListRemove(files, files[j]), j + 1,
                         IF Has(rev, files[j]) THEN Del(rev, files[j]) ELSE rev, onDisk)
         ELSE PruneFiles(files, j + 1, rev, onDisk)

\* "for fingerprint, files in self.fingerprints.items()" with a del inside: after
\* a del the dict's size differs from the one the iterator recorded and its next
\* step raises RuntimeError, also when the deleted entry was the last one
RECURSIVE PruneFrom(_, _, _, _)
PruneFrom(d, i, rev, onDisk) ==
    IF i > Len(d) THEN [fps |-> d, rev |-> rev, raised |-> "none"]
    ELSE LET r == PruneFiles(d[i].files, 1, rev, onDisk) IN
         IF r.files = <<>>
         THEN [fps |-> RemoveAt(d, i), rev |-> r.rev, raised |-> "RuntimeError"]
         ELSE PruneFrom([d EXCEPT ![i].files = r.files], i + 1, r.rev, onDisk)

\* a variant that leaves out lines 142-143: an entry left empty stays
RECURSIVE PruneFromKeepsEmpty(_, _, _, _)
PruneFromKeepsEmpty(d, i, rev, onDisk) ==
    IF i > Len(d) THEN [fps |-> d, rev |-> rev, raised |-> "none"]
    ELSE LET r == PruneFiles(d[i].files, 1, rev, onDisk) IN
         PruneFromKeepsEmpty([d EXCEPT ![i].files = r.files], i + 1, r.rev, onDisk)
PruneLoopKeepsEmpty(d, rev, onDisk) == PruneFromKeepsEmpty(d, 1, rev, onDisk)

PruneLoop(d, rev, onDisk) == PruneFrom(d, 1, rev, onDisk)

----------------------------------------------------------------------------
(* The state machine *)

Workers == 1..NumWorkers

Op(kind, raised) ==
    [kind |-> kind, raised |-> raised, fpBefore |-> fingerprints,
     revBefore |-> reverseFingerprints, fileBefore |-> cacheFile, repeat |-> FALSE,
     cmdFound |-> TRUE]

\* __init__ in a new process, after the program's --reset-cache step: the
\* fingerprint command is looked up, the cache is loaded when caching is
\* enabled, and the reverse mapping is built
Loaded(enabled, file0) ==
    IF enabled THEN loadCache(file0)
    ELSE [fps |-> <<>>, file |-> file0, shape |-> "dict"]

\* __init__ with the cache loaded before the command is looked up
InitLoadsFirst(enabled, cmdExists, file0) ==
    LET ld == Loaded(enabled, file0) IN
    IF ld.shape # "dict"
    THEN [raised |-> "AttributeError", pc |-> "crashed", file |-> ld.file, fps |-> ld.fps]
    ELSE IF ~cmdExists
    THEN [raised |-> "AudioDedupeException", pc |-> "exit1", file |-> ld.file, fps |-> ld.fps]
    ELSE [raised |-> "none", pc |-> "idle", file |-> ld.file, fps |-> ld.fps]

\* lines 46-52 and the program's handler of lines 196-199: what __init__
\* raises, where the process is afterwards, the cache file and the forward
\* mapping
InitOutcome(enabled, cmdExists, file0) ==
    IF ~cmdExists
    THEN [raised |-> "AudioDedupeException", pc |-> "exit1", file |-> file0, fps |-> <<>>]
    ELSE LET ld == Loaded(enabled, file0) IN
         IF ld.shape # "dict"
         THEN [raised |-> "AttributeError", pc |-> "crashed", file |-> ld.file, fps |-> ld.fps]
         ELSE [raised |-> "none", pc |-> "idle", file |-> ld.file, fps |-> ld.fps]

Construct(enabled, cmdExists, reset) ==
    LET file0 == IF reset THEN Absent ELSE cacheFile
        out == InitOutcome(enabled, cmdExists, file0)
    IN /\ cacheEnabled' = enabled
       /\ candidates' = <<>>
       /\ results' = <<>>
       /\ nextTask' = 1
       /\ workers' = [w \in Workers |-> IdleWorker]
       /\ passLog' = EmptyLog
       /\ nOps' = nOps
       /\ printed' = NoOutput
       /\ lastOp' = [NoOp EXCEPT !.kind = "construct", !.fileBefore = file0,
                                 !.raised = out.raised, !.cmdFound = cmdExists]
       /\ pc' = out.pc
       /\ cacheFile' = out.file
       /\ fingerprints' = out.fps
       /\ reverseFingerprints' = IF out.pc = "idle"
                                 THEN updateReverseFingerprints(out.fps, EmptyMap)
                                 ELSE EmptyMap

\* the state every run of the model starts in, but for the files on disk
Constructed ==
    /\ cacheFile = Absent
    /\ cacheEnabled \in BOOLEAN
    /\ fingerprints = <<>>
    /\ reverseFingerprints = EmptyMap
    /\ pc = "idle"
    /\ candidates = <<>>
    /\ results = <<>>
    /\ nextTask = 1
    /\ workers = [w \in Workers |-> IdleWorker]
    /\ passLog = EmptyLog
    /\ lastOp = [NoOp EXCEPT !.kind = "construct"]
    /\ nOps = 0
    /\ nRuns = 0
    /\ printed = NoOutput

Init ==
    /\ disk = DirFiles("music")
    /\ Constructed

\* the process ends and the program is run again
NewRun ==
    /\ pc # "scanning"
    /\ nRuns < MaxRuns
    /\ nRuns' = nRuns + 1
    /\ \E enabled \in BOOLEAN, cmdExists \in BOOLEAN, reset \in BOOLEAN :
          Construct(enabled, cmdExists, reset)
    /\ UNCHANGED disk

\* scan(directory), up to pool.map having listed the candidates
ScanDir(d) ==
    /\ pc = "idle"
    /\ nOps < MaxOps
    /\ candidates' = descend(d, disk)
    /\ results' = [i \in DOMAIN candidates' |-> Pending]
    /\ pc' = "scanning"
    /\ nextTask' = 1
    /\ workers' = [w \in Workers |-> IdleWorker]
    /\ passLog' = EmptyLog
    /\ lastOp' = NoOp
    /\ nOps' = nOps + 1
    /\ printed' = NoOutput
    /\ UNCHANGED <<disk, cacheFile, cacheEnabled, fingerprints, reverseFingerprints, nRuns>>

ScanBegin == \E d \in Dirs : ScanDir(d)

\* what a worker does after scanFile returned: the next item of its chunk, or idle
Advance(wk) ==
    IF wk.idx < wk.last THEN [wk EXCEPT !.pc = "ready", !.idx = @ + 1] ELSE IdleWorker

\* a worker that is idle takes the next chunk: the task carries a pickled copy of
\* self, so the worker's scanFile runs on its own copy of the reverse mapping.
\* The pool's processes are alike: the chunk goes to the first idle one.
CanStart(w) ==
    /\ pc = "scanning"
    /\ \/ workers[w].pc = "ready"
       \/ /\ workers[w].pc = "idle"
          /\ nextTask <= Len(candidates)
          /\ \A v \in 1..(w - 1) : workers[v].pc # "idle"
Task(w) ==
    IF workers[w].pc = "ready" THEN workers[w]
    ELSE [pc |-> "ready", idx |-> nextTask,
          last |-> Min(nextTask + ChunkSize(Len(candidates)) - 1, Len(candidates)),
          rev |-> reverseFingerprints]
NextTaskAfter(w) == IF workers[w].pc = "ready" THEN nextTask ELSE Task(w).last + 1

\* history: the answer scanFile gave for a candidate, and when it came
Logged(log, idx, res) ==
    [log EXCEPT !.answers[candidates[idx]] = res, !.order = Append(@, idx)]

\* scanFile in a pool whose workers share the coordinator's instance
ReturnedInSharedInstance(idx, res) ==
    /\ results' = [results EXCEPT ![idx] = res]
    /\ reverseFingerprints' = IF res.success THEN Put(reverseFingerprints, res.file, res.fingerprint)
                              ELSE reverseFingerprints
    /\ UNCHANGED <<disk, cacheFile, cacheEnabled, fingerprints, pc,
                   candidates, lastOp, nOps, nRuns, printed>>

\* scanFile returns: the result reaches pool.map's list; the instance the
\* worker wrote (line 101) is its own copy
Returned(idx, res) ==
    /\ results' = [results EXCEPT ![idx] = res]
    /\ UNCHANGED <<disk, cacheFile, cacheEnabled, fingerprints, reverseFingerprints, pc,
                   candidates, lastOp, nOps, nRuns, printed>>

\* scanFile, lines 80-85: the path is a key of the reverse mapping
ScanFileCached(w) ==
    LET wk == Task(w)
        p == candidates[wk.idx]
    IN /\ CanStart(w)
       /\ Has(wk.rev, p)
       /\ workers' = [workers EXCEPT ![w] = Advance(wk)]
       /\ nextTask' = NextTaskAfter(w)
       /\ passLog' = Logged(passLog, wk.idx, [file |-> p, fingerprint |-> wk.rev[p], success |-> TRUE])
       /\ Returned(wk.idx, [file |-> p, fingerprint |-> wk.rev[p], success |-> TRUE])

\* scanFile, line 90: the provider process is started
ScanFileSpawn(w) ==
    LET wk == Task(w)
        p == candidates[wk.idx]
    IN /\ CanStart(w)
       /\ ~Has(wk.rev, p)
       /\ workers' = [workers EXCEPT ![w] = [wk EXCEPT !.pc = "running"]]
       /\ nextTask' = NextTaskAfter(w)
       /\ passLog' = [passLog EXCEPT !.calls[p] = @ + 1]
       /\ UNCHANGED <<disk, cacheFile, cacheEnabled, fingerprints, reverseFingerprints, pc,
                      candidates, results, lastOp, nOps, nRuns, printed>>

\* scanFile, line 90 and 103: Popen raises (the process cannot be started)
ScanFileSpawnFails(w) ==
    LET wk == Task(w)
        p == candidates[wk.idx]
    IN /\ CanStart(w)
       /\ ~Has(wk.rev, p)
       /\ workers' = [workers EXCEPT ![w] = Advance(wk)]
       /\ nextTask' = NextTaskAfter(w)
       /\ passLog' = Logged([passLog EXCEPT !.calls[p] = @ + 1, !.failed = @ \cup {p}],
                            wk.idx, None)
       /\ Returned(wk.idx, None)

\* scanFile, lines 92-104: the provider exits before the timeout
ScanFileProviderExits(w) ==
    LET wk == workers[w]
        p == candidates[wk.idx]
    IN /\ pc = "scanning"
       /\ wk.pc = "running"
       /\ \E out \in ProviderOutputs :
             IF out \in ProviderFailures
             THEN /\ workers' = [workers EXCEPT ![w] = Advance(wk)]
                  /\ passLog' = Logged([passLog EXCEPT !.failed = @ \cup {p}], wk.idx, None)
                  /\ nextTask' = nextTask
                  /\ Returned(wk.idx, None)
             ELSE /\ workers' = [workers EXCEPT ![w] = Advance([wk EXCEPT !.rev = Put(@, p, out)])]
                  /\ passLog' = Logged(IF out = "" THEN [passLog EXCEPT !.failed = @ \cup {p}]
                                       ELSE [passLog EXCEPT !.computed = @ \cup {<<p, out>>}],
                                       wk.idx, [file |-> p, fingerprint |-> out, success |-> TRUE])
                  /\ nextTask' = nextTask
                  /\ Returned(wk.idx, [file |-> p, fingerprint |-> out, success |-> TRUE])

\* scanFile, line 92: communicate raises TimeoutExpired; the with statement's
\* exit closes the pipes and waits for the provider process to end
ScanFileTimeout(w) ==
    /\ pc = "scanning"
    /\ workers[w].pc = "running"
    /\ workers' = [workers EXCEPT ![w].pc = "timedout"]
    /\ UNCHANGED <<disk, cacheFile, cacheEnabled, fingerprints, reverseFingerprints, pc,
                   candidates, results, nextTask, passLog, lastOp, nOps, nRuns, printed>>

\* the provider process ends by itself after the timeout: the wait returns and
\* the exception reaches line 103
ProviderEndsLate(w) ==
    LET wk == workers[w]
        p == candidates[wk.idx]
    IN /\ pc = "scanning"
       /\ wk.pc = "timedout"
       /\ workers' = [workers EXCEPT ![w] = Advance(wk)]
       /\ passLog' = Logged([passLog EXCEPT !.failed = @ \cup {p}], wk.idx, None)
       /\ nextTask' = nextTask
       /\ Returned(wk.idx, None)

\* scan, lines 120-133: pool.map returned; the results are merged in the
\* candidates' order and the cache is written
ScanMerge ==
    /\ pc = "scanning"
    /\ \A i \in DOMAIN results : results[i] # Pending
    /\ fingerprints' = MergeResults(fingerprints, ResultOrder(results, passLog.order))
    /\ \E writable \in BOOLEAN :
          /\ cacheFile' = SaveIfEnabled(cacheEnabled, cacheFile, fingerprints', writable)
          /\ lastOp' = Op("scan", SaveRaises(cacheEnabled, writable))
    /\ pc' = "idle"
    /\ candidates' = <<>>
    /\ results' = <<>>
    /\ nextTask' = 1
    /\ UNCHANGED <<disk, cacheEnabled, reverseFingerprints, workers, passLog, nOps, nRuns,
                   printed>>

\* pruneFingerprints, called by kind: "prune" for the caller of the method,
\* "analyze" for analyzeResults
PruneCall(kind) ==
    /\ pc = "idle"
    /\ nOps < MaxOps
    /\ \E writable \in BOOLEAN :
          LET r == PruneLoop(fingerprints, reverseFingerprints, disk)
              raised == IF r.raised # "none" THEN r.raised
                        ELSE SaveRaises(cacheEnabled, writable)
          IN /\ fingerprints' = r.fps
             /\ reverseFingerprints' = r.rev
             /\ cacheFile' = IF r.raised = "none"
                             THEN SaveIfEnabled(cacheEnabled, cacheFile, r.fps, writable)
                             ELSE cacheFile
             /\ lastOp' = [Op(kind, raised) EXCEPT !.repeat = (lastOp.kind \in PruneKinds)]
    /\ nOps' = nOps + 1
    /\ passLog' = EmptyLog
    /\ UNCHANGED <<disk, cacheEnabled, pc, candidates, results, nextTask, workers, nRuns>>

Prune ==
    /\ PruneCall("prune")
    /\ printed' = NoOutput

\* analyzeResults, line 149-150: the number of entries with more than one file
ReportCount(d) == Cardinality({i \in DOMAIN d : Len(d[i].files) > 1})
\* analyzeResults, lines 151-157: the file lists printed, one per entry with
\* more than one file, in the dict's order
ReportGroups(d) ==
    LET dup == SelectSeq(d, LAMBDA e : Len(e.files) > 1) IN
    [i \in DOMAIN dup |-> dup[i].files]
Report(d) == [done |-> TRUE, count |-> ReportCount(d), groups |-> ReportGroups(d)]

\* analyzeResults: pruneFingerprints, and when it raised nothing, the report
AnalyzeResults ==
    /\ PruneCall("analyze")
    /\ printed' = IF lastOp'.raised = "none" THEN Report(fingerprints') ELSE NoOutput

\* the environment: files come and go, the cache file gets damaged
DeleteFile ==
    /\ pc # "scanning"
    /\ \E p \in disk : disk' = disk \ {p}
    /\ lastOp' = [NoOp EXCEPT !.kind = "env"]
    /\ passLog' = EmptyLog
    /\ printed' = NoOutput
    /\ UNCHANGED <<cacheFile, cacheEnabled, fingerprints, reverseFingerprints, pc,
                   candidates, results, nextTask, workers, nOps, nRuns>>

CreateFile ==
    /\ pc # "scanning"
    /\ \E p \in DirFiles("music") \ disk : disk' = disk \cup {p}
    /\ lastOp' = [NoOp EXCEPT !.kind = "env"]
    /\ passLog' = EmptyLog
    /\ printed' = NoOutput
    /\ UNCHANGED <<cacheFile, cacheEnabled, fingerprints, reverseFingerprints, pc,
                   candidates, results, nextTask, workers, nOps, nRuns>>

CorruptCache ==
    /\ pc # "scanning"
    /\ cacheFile.kind = "map"
    /\ \E k \in {"garbage", "wrongshape"} : cacheFile' = [kind |-> k, data |-> <<>>]
    /\ lastOp' = [NoOp EXCEPT !.kind = "env"]
    /\ passLog' = EmptyLog
    /\ printed' = NoOutput
    /\ UNCHANGED <<disk, cacheEnabled, fingerprints, reverseFingerprints, pc,
                   candidates, results, nextTask, workers, nOps, nRuns>>

\* scanFile past the cache lookup of lines 80-85
ScanFileUncached ==
    \E w \in Workers :
        \/ ScanFileSpawn(w)
        \/ ScanFileSpawnFails(w)
        \/ ScanFileProviderExits(w)
        \/ ScanFileTimeout(w)

WorkerStep ==
    \/ (\E w \in Workers : ScanFileCached(w))
    \/ ScanFileUncached

Next ==
    \/ NewRun
    \/ ScanBegin
    \/ WorkerStep
    \/ (\E w \in Workers : ProviderEndsLate(w))
    \/ ScanMerge
    \/ Prune
    \/ AnalyzeResults
    \/ DeleteFile
    \/ CreateFile
    \/ CorruptCache

Spec == Init /\ [][Next]_vars

\* The program's scenario of one directory with three files: instances start
\* with an empty index, the directory is scanned while the index is empty,
\* files are deleted, and analyzeResults reports.  The reverse mapping of an
\* instance that started empty holds no path (line 101 writes the worker's
\* copy), so the lookup of line 80 never hits.
InitReport ==
    /\ disk = DirFiles("album")
    /\ Constructed

NextReport ==
    \/ (fingerprints = <<>> /\ ScanDir("album"))
    \/ ScanFileUncached
    \/ (\E w \in Workers : ProviderEndsLate(w))
    \/ ScanMerge
    \/ AnalyzeResults
    \/ DeleteFile

SpecReport == InitReport /\ [][NextReport]_vars

\* the pool's processes and the coordinator keep running; a provider process
\* that was started need never end
FairSpec == Spec /\ WF_vars(WorkerStep) /\ WF_vars(ScanMerge)

----------------------------------------------------------------------------
(* The claims *)

InGroup(d, f, p) == f \in Keys(d) /\ Contains(Get(d, f), p)

\* forward and reverse agree: every member of an entry maps back to the entry's
\* fingerprint, and every key of the reverse mapping is a member of its entry
Consistent(d, rev) ==
    /\ \A i \in DOMAIN d : \A j \in DOMAIN d[i].files : rev[d[i].files[j]] = d[i].fp
    /\ \A p \in Paths : Has(rev, p) => InGroup(d, rev[p], p)

\* the last operation was a pruning pass, called directly or by analyzeResults
Pruned == lastOp.kind \in PruneKinds

\* C1: with caching enabled, the provider is never invoked for a path that is
\* recorded in the index: every invocation made in a scan pass is for a path
\* that is no member of any fingerprint group.
C1_AtMostOnce ==
    (cacheEnabled /\ pc = "scanning") =>
        \A p \in Paths : passLog.calls[p] > 0 => p \notin Members(fingerprints)

\* C2: after every completed operation (construction, scan, prune) the forward
\* and the reverse mapping are consistent.
C2_Consistent ==
    pc = "idle" => Consistent(fingerprints, reverseFingerprints)

\* C3: after pruneFingerprints every member of every group exists on disk and
\* no missing path is left in the forward or in the reverse mapping.
C3_PruneRemovesMissing ==
    Pruned =>
        /\ Members(fingerprints) \subseteq disk
        /\ RevKeys(reverseFingerprints) \subseteq disk

\* C4: pruneFingerprints never raises because of the index and the deleted
\* files (a cache-write failure apart).
C4_PruneNeverRaises ==
    Pruned => lastOp.raised \in {"none", "OSError"}

\* C5: after a pruning pass, however it ended, the forward mapping has no
\* fingerprint with an empty member list.
C5_NoEmptyGroup ==
    Pruned => \A i \in DOMAIN fingerprints : fingerprints[i].files # <<>>

\* C5's case: a pass that removed the last member of a group
C5_Witness ==
    /\ Pruned
    /\ Len(fingerprints) < Len(lastOp.fpBefore)
    /\ fingerprints # <<>>

\* C6: a second pruneFingerprints right after a first one, the files on disk
\* unchanged, changes neither the forward nor the reverse mapping.
C6_PruneIdempotent ==
    (Pruned /\ lastOp.repeat) =>
        /\ fingerprints = lastOp.fpBefore
        /\ reverseFingerprints = lastOp.revBefore

\* C7: scan raises nothing but a cache-write failure although provider calls failed; a path
\* whose call failed is in neither mapping afterwards (so the next scan calls
\* the provider for it again), and every path whose call gave a fingerprint is
\* a member of that fingerprint's group.
C7_FailureIsLocal ==
    lastOp.kind = "scan" =>
        /\ lastOp.raised \in {"none", "OSError"}
        /\ \A p \in passLog.failed :
              p \notin Members(fingerprints) /\ ~Has(reverseFingerprints, p)
        /\ \A c \in passLog.computed : InGroup(fingerprints, c[2], c[1])

\* C8: a scan that has begun returns to its caller, also when a provider
\* process never ends by itself: the timeout releases the worker.
C8_ScanReturns ==
    (pc = "scanning") ~> (pc = "idle")

\* C9: constructing an instance over a corrupt cache file (unparseable, or
\* parseable but no mapping) raises nothing, leaves both mappings empty and
\* discards the file.
C9_CorruptCacheIsDiscarded ==
    (/\ lastOp.kind = "construct"
     /\ cacheEnabled
     /\ lastOp.fileBefore.kind \in {"garbage", "wrongshape"}
     /\ lastOp.raised # "AudioDedupeException") =>
        /\ lastOp.raised = "none"
        /\ fingerprints = <<>>
        /\ reverseFingerprints = EmptyMap
        /\ cacheFile = Absent

\* C10: an instance constructed over the file writeCache wrote has the forward
\* mapping that was saved, and a reverse mapping that is exactly its inverse:
\* a path maps to a fingerprint if and only if it is a member of its group.
C10_RoundTrip ==
    (/\ lastOp.kind = "construct"
     /\ cacheEnabled
     /\ lastOp.fileBefore.kind = "map"
     /\ lastOp.raised = "none") =>
        /\ JsonDump(fingerprints) = lastOp.fileBefore.data
        /\ \A p \in Paths : \A f \in Fingerprints :
              InGroup(fingerprints, f, p) <=> reverseFingerprints[p] = f

\* C11: with caching enabled, after a scan or a prune that changed the forward
\* mapping and ended normally or with an error other than a cache-write
\* failure, the cache file holds the forward mapping.
C11_WrittenBack ==
    (/\ cacheEnabled
     /\ (lastOp.kind = "scan" \/ Pruned)
     /\ lastOp.raised # "OSError"
     /\ fingerprints # lastOp.fpBefore) =>
        /\ cacheFile.kind = "map"
        /\ JsonLoad(cacheFile.data) = fingerprints

\* the candidates of the last pass that got an answer, in the walk's order,
\* and their answers
Answered == SelectSeq(WalkOrder, LAMBDA p : passLog.answers[p] # Pending)
AnswerSeq == [i \in DOMAIN Answered |-> passLog.answers[Answered[i]]]
\* the paths the last pass reported with a well-formed fingerprint f
ReportedWith(f) ==
    {p \in Paths : passLog.answers[p].success /\ passLog.answers[p].fingerprint = f}
GroupSet(d, f) == {p \in Paths : InGroup(d, f, p)}

\* C12: the forward mapping after a scan depends on the candidates and their
\* answers only, not on the order the workers finished in: each group is the
\* group before plus the paths reported with its fingerprint, and the mapping
\* is the one a merge of the answers in the candidates' order gives.
C12_OrderIndependent ==
    lastOp.kind = "scan" =>
        /\ \A f \in Fingerprints :
              GroupSet(fingerprints, f) = GroupSet(lastOp.fpBefore, f) \cup ReportedWith(f)
        /\ fingerprints = MergeResults(lastOp.fpBefore, AnswerSeq)

\* C12's case: the second candidate was finished first and both candidates
\* were reported with the same fingerprint
C12_Witness ==
    /\ lastOp.kind = "scan"
    /\ passLog.order = <<2, 1>>
    /\ \E f \in Fingerprints : ReportedWith(f) = {"a", "b"}

Occurrences(files, p) == Cardinality({j \in DOMAIN files : files[j] = p})

\* C13: after a scan every path the pass reported with a fingerprint occurs
\* exactly once in that fingerprint's group, also when it was a member before.
C13_RecordIdempotent ==
    lastOp.kind = "scan" =>
        \A f \in Fingerprints : \A p \in ReportedWith(f) :
            f \in Keys(fingerprints) /\ Occurrences(Get(fingerprints, f), p) = 1

\* C13's case: a path reported with the fingerprint it was recorded under
C13_Witness ==
    /\ lastOp.kind = "scan"
    /\ \E f \in Fingerprints : \E p \in ReportedWith(f) : InGroup(lastOp.fpBefore, f, p)

\* the files of fingerprint f's group that exist, as the index stood when
\* analyzeResults was called
ExistingWith(f) == GroupSet(lastOp.fpBefore, f) \cap disk
Duplicates == {g \in {ExistingWith(f) : f \in Fingerprints} : Cardinality(g) >= 2}
Listed == {{printed.groups[i][j] : j \in DOMAIN printed.groups[i]} : i \in DOMAIN printed.groups}

\* C14: an index filled by scanning from empty: the groups analyzeResults
\* lists are exactly the sets of two or more existing files with one
\* fingerprint, each listed once, and the count printed is their number.
C14_ReportsDuplicates ==
    (lastOp.kind = "analyze" /\ printed.done) =>
        /\ Listed = Duplicates
        /\ Len(printed.groups) = Cardinality(Duplicates)
        /\ printed.count = Len(printed.groups)

\* C15: with caching disabled, construction, scan, pruneFingerprints and
\* analyzeResults leave the cache file as they found it (construction finds it
\* as the program's --reset-cache step left it), and a constructed instance
\* has an empty index whatever the file holds.
C15_DisabledIsNoOp ==
    [][(~cacheEnabled' /\ lastOp'.kind # "env") =>
          /\ cacheFile' = (IF lastOp'.kind = "construct" THEN lastOp'.fileBefore ELSE cacheFile)
          /\ (lastOp'.kind = "construct" /\ pc' # "exit1") =>
                /\ pc' = "idle"
                /\ lastOp'.raised = "none"
                /\ fingerprints' = <<>>
                /\ reverseFingerprints' = EmptyMap]_vars

\* C15's case: an instance with caching disabled, constructed over a cache
\* file that holds a mapping, has scanned and recorded something else
C15_Witness ==
    /\ ~cacheEnabled
    /\ lastOp.kind = "scan"
    /\ cacheFile.kind = "map"
    /\ JsonLoad(cacheFile.data) # <<>>
    /\ fingerprints # <<>>
    /\ fingerprints # JsonLoad(cacheFile.data)

\* C16: constructing an instance when the fingerprint command is missing
\* raises AudioDedupeException and the program exits with status 1, with the
\* cache file neither loaded nor changed and nothing scanned, computed or
\* written; nothing but a new program run or the environment acts afterwards.
C16_MissingCommandIsFatal ==
    [][/\ (lastOp'.kind = "construct" /\ ~lastOp'.cmdFound) =>
             /\ lastOp'.raised = "AudioDedupeException"
             /\ pc' = "exit1"
             /\ cacheFile' = lastOp'.fileBefore
             /\ fingerprints' = <<>>
             /\ reverseFingerprints' = EmptyMap
             /\ candidates' = <<>>
             /\ passLog' = EmptyLog
             /\ printed' = NoOutput
       /\ pc = "exit1" => lastOp'.kind \in {"construct", "env"}]_vars

\* C16's case: the command is missing, caching is enabled and the cache file
\* is one that loading would have removed
C16_Witness ==
    /\ pc = "exit1"
    /\ lastOp.kind = "construct"
    /\ ~lastOp.cmdFound
    /\ cacheEnabled
    /\ cacheFile.kind = "garbage"

\* C17: while a scan is under way (from pool.map's start until the
\* coordinator merges the results) no step changes the coordinator's forward or
\* reverse mapping; the workers write their own copies only.
C17_SingleMutator ==
    [][(pc = "scanning" /\ pc' = "scanning") =>
          /\ fingerprints' = fingerprints
          /\ reverseFingerprints' = reverseFingerprints]_vars

\* C17's case: the scan is still under way, a worker has computed a path's
\* fingerprint (and passed line 101), and the coordinator's reverse mapping
\* does not hold the path
C17_Witness ==
    /\ pc = "scanning"
    /\ \E i \in DOMAIN results :
          /\ results[i].success
          /\ <<results[i].file, results[i].fingerprint>> \in passLog.computed
          /\ ~Has(reverseFingerprints, results[i].file)

\* C18: in every state no path is a member of two fingerprint groups.
C18_GroupsDisjoint ==
    \A p \in Paths : Cardinality({f \in Fingerprints : InGroup(fingerprints, f, p)}) <= 1

\* C19: a pruning pass, however it ended, only removes: every fingerprint and
\* every membership of the forward mapping was there before, every entry of
\* the reverse mapping is the one that was there before, and every path that
\* is a regular file on disk keeps its memberships and its reverse entry.
C19_PruneOnlyRemoves ==
    Pruned =>
        /\ Keys(fingerprints) \subseteq Keys(lastOp.fpBefore)
        /\ \A f \in Fingerprints : GroupSet(fingerprints, f) \subseteq GroupSet(lastOp.fpBefore, f)
        /\ \A p \in Paths : Has(reverseFingerprints, p) => reverseFingerprints[p] = lastOp.revBefore[p]
        /\ \A p \in disk :
              /\ \A f \in Fingerprints : InGroup(lastOp.fpBefore, f, p) => InGroup(fingerprints, f, p)
              /\ reverseFingerprints[p] = lastOp.revBefore[p]

\* C19's case: a pass that removed a deleted path from both mappings while a
\* path that exists is recorded in both
C19_Witness ==
    /\ Pruned
    /\ fingerprints # lastOp.fpBefore
    /\ reverseFingerprints # lastOp.revBefore
    /\ \E p \in disk : /\ Has(reverseFingerprints, p)
                        /\ \E f \in Fingerprints : InGroup(fingerprints, f, p)

====
